---- MODULE Spec2Model ----
(***************************************************************************)
(* swyh-rs: the streaming server workers (run_server), the capture         *)
(* callback (wave_reader) and the configuration callbacks of main, as a    *)
(* state machine over the shared registry CLIENTS, the CONFIG lock, the    *)
(* per-connection sample channels and the feedback channel.                *)
(***************************************************************************)
EXTENDS Integers, Sequences, FiniteSets, TLC

(* ---------------------------------------------------------------- bounds *)
\* what the environment does over a run: requests sent, capture callbacks
\* delivered and checkboxes clicked, all together
MaxEvents == 3

\* the worker threads of the pool: for _ in 0..8 { ... thread::spawn ... },
\* scaled down to two
NumWorkers == 2
Workers_OneMore == 1..(NumWorkers + 1)
Workers == 1..NumWorkers

\* the samples of one batch on the RMS channel, and the batches sent on it
MaxBatchLen == 2
MaxRmsBatches == 2

\* the discoveries the updater runs, and the renderers one discovery finds
MaxCycles == 2
MaxFound == 2

(* ------------------------------------------------------------- constants *)
\* the streaming endpoint, main.rs:729
StreamUrl == "/stream/swyh.wav"
\* chunked threshold when chunking is enabled, main.rs:775
ChunkedThreshold == 8192
\* usize::MAX stands for itself: only equality with it matters
UsizeMax == "usize::MAX"
UsizeMaxMinus1 == "usize::MAX-1"
NoSize == "None"
\* WavData.sample_rate of the device (one fixed device rate)
SampleRate == 44100

(* remote socket addresses as strings of tokens, host ":" port *)
Addrs ==
    { <<"hostA", ":", "p1">>, <<"hostA", ":", "p2">>, <<"hostB", ":", "p1">> }
Urls == { StreamUrl, "/other" }
Methods == { "GET", "HEAD", "POST", "PUT" }

NoRq == [remote_addr |-> << >>, url |-> "", method |-> ""]
NoResp == [status |-> 0]

VARIABLES
    pc,          \* pc[w]: the statement worker w is about to execute
    rq,          \* rq[w]: the request worker w is handling
    remote_ip,   \* remote_ip[w]: host part of rq[w].remote_addr
    conf,        \* conf[w]: the configuration snapshot of the request
    hdrs,        \* hdrs[w]: ct_text and the transfer policy computed for the request
    resp,        \* resp[w]: the response handed to rq.respond
    respResult,  \* respResult[w]: what rq.respond returned for the streaming GET
    clients,     \* CLIENTS: remote_addr -> ChannelStream
    chan,        \* chan[w]: the crossbeam channel (tx, rx) created for w's request
    drained,     \* drained[w]: the batches the HTTP writer has read from the adapter
    silence,     \* silence[w]: create_silence has run for w's request
    feedback,    \* the feedback channel (feedback_tx -> feedback_rx)
    config,      \* CONFIG
    cfgWriter,   \* TRUE while a control callback holds CONFIG.write()
    wrPc,        \* the capture callback's position
    wrBatch,     \* i16_samples of the callback in progress (its ordinal)
    nCallbacks,  \* callbacks started so far
    rmsChan,     \* the RMS channel
    nEvents,     \* requests, callbacks and clicks so far
    \* history variables, about the request a worker is handling
    written,     \* written[w]: the batches callbacks have fanned out to w's adapter
    regAt,       \* regAt[w]: the last batch fanned out before w's insert
    inserted,    \* inserted[w]: w's insert has happened
    nStarted,    \* nStarted[w]: Started events w has sent for the request
    nEnded,      \* nEnded[w]: Ended events w has sent for the request
    otherAtEnd,  \* otherAtEnd[w]: another entry with the ip was registered at the end
    keyAtEnded,  \* keyAtEnded[w]: the key was registered when Ended was sent
    \* run_rms_monitor
    wd,          \* the WavData of the output device: sample_rate, channels
    rmsOpen,     \* a Sender of the RMS channel is alive
    rmsPc,       \* where the monitor is: "recv", "sample" or "done"
    rmsSamples,  \* samples: the batch the monitor is iterating over
    rmsN,        \* n: how many samples of the batch have been processed
    samples_per_update,
    nsamples,
    sum_l,
    sum_r,
    rms_l,       \* the value last set on rms_frame_l
    rms_r,       \* the value last set on rms_frame_r
    \* history variables of the monitor
    nConsumed,   \* samples processed so far
    nPublished,  \* levels published so far
    winAmps,     \* the sample values accumulated in the current window
    pubAmps,     \* the sample values of the window last published
    pubLen,      \* the number of samples of the window last published
    \* main, from the capture of the output device to the spawned threads
    mainPc,      \* where main is
    sample_format, \* audio_cfg.sample_format()
    stream,      \* what capture_output_audio returned: "Some", "None"; "unset" before
    logged,      \* the messages sent on LOGCHANNEL by main, in order
    threads,     \* the names of the threads main has spawned
    \* run_ssdp_updater
    ssdpPc,      \* where the updater is: "discover", "iterate" or "sleep"
    rmap,        \* the renderers known to the updater, by remote_addr
    renderers,   \* the items of the discovery result still to be visited
    ssdpChan,    \* the renderers sent on ssdp_tx, in order
    \* history variables of the updater
    nCycles,     \* discoveries run so far
    failed,      \* the last discovery failed
    rmapAt,      \* rmap when the last discovery returned
    sentAt,      \* the number of renderers sent when the last discovery returned
    nSkipped,    \* items not forwarded because their remote_addr was known
    \* main's event loop, the feedback part
    buttons,     \* buttons[ip]: the renderer button of ip is set
    auto_resume, \* the auto-resume checkbox is set
    nPlays,      \* play requests issued by the loop
    lastFb,      \* history: the feedback event processed last, and what the loop saw
    \* the registry lock, statement by statement
    lkPc,        \* lkPc[w]: the statement of LkProgram worker w is at, 0 outside
    regWriter,   \* the worker holding CLIENTS.write(), 0 if none
    regReaders,  \* the threads holding CLIENTS.read()
    rdPc,        \* the statement of RdProgram the capture callback is at, 0 outside
    heldOps,     \* history: what has been done under the write lock, under the read lock
    \* StreamingState::eq
    eqPc,        \* "idle", "call", "returned" or "overflow" (the process aborted)
    eqSelf,
    eqOther,
    eqDepth,     \* the frames of eq on the stack
    eqResult

vars == << pc, rq, remote_ip, conf, hdrs, resp, respResult, clients,
           chan, drained, silence, feedback, config, cfgWriter, wrPc, wrBatch,
           nCallbacks, rmsChan, nEvents, written, regAt, inserted,
           nStarted, nEnded, otherAtEnd, keyAtEnded, wd, rmsOpen, rmsPc,
           rmsSamples, rmsN, samples_per_update, nsamples, sum_l, sum_r,
           rms_l, rms_r, nConsumed, nPublished, winAmps, pubAmps, pubLen,
           mainPc, sample_format, stream, logged, threads,
           ssdpPc, rmap, renderers, ssdpChan, nCycles, failed, rmapAt, sentAt,
           nSkipped, buttons, auto_resume, nPlays, lastFb, lkPc, regWriter,
           regReaders, rdPc, heldOps, eqPc, eqSelf, eqOther, eqDepth, eqResult >>

workerVars == << pc, rq, remote_ip, conf, hdrs, resp, respResult, drained, silence >>
histVars == << written, regAt, inserted, nStarted, nEnded, otherAtEnd, keyAtEnded >>
captureVars == << wrPc, wrBatch, nCallbacks, rmsChan >>
configVars == << config, cfgWriter >>
monitorVars == << wd, rmsOpen, rmsPc, rmsSamples, rmsN, samples_per_update,
                 nsamples, sum_l, sum_r, rms_l, rms_r, nConsumed, nPublished,
                 winAmps, pubAmps, pubLen >>
startupVars == << mainPc, sample_format, stream, logged, threads >>
ssdpVars == << ssdpPc, rmap, renderers, ssdpChan, nCycles, failed, rmapAt,
              sentAt, nSkipped >>
loopVars == << buttons, auto_resume, nPlays, lastFb >>
lockVars == << lkPc, regWriter, regReaders, rdPc, heldOps >>
eqVars == << eqPc, eqSelf, eqOther, eqDepth, eqResult >>
afterSsdpVars == << loopVars, lockVars, eqVars >>
afterStartupVars == << ssdpVars, afterSsdpVars >>
restVars == << startupVars, afterStartupVars >>
serverVars == << workerVars, histVars, configVars, clients, chan, feedback,
                wrPc, wrBatch, nEvents >>

(* --------------------------------------------------------------- helpers *)
\* String::find(':'): the index of the first ':' (1-based), 0 if there is none
Find(s, c) ==
    IF \E i \in 1..Len(s) : s[i] = c
    THEN CHOOSE i \in 1..Len(s) : s[i] = c /\ \A j \in 1..(i - 1) : s[j] # c
    ELSE 0

\* remote_ip: remote_addr truncated at its first ':'
RemoteIp(addr) ==
    IF Find(addr, ":") > 0 THEN SubSeq(addr, 1, Find(addr, ":") - 1) ELSE addr

\* HashMap::insert: the entry under the key is added or replaced
MapInsert(m, k, v) == [x \in DOMAIN m \cup {k} |-> IF x = k THEN v ELSE m[x]]

MapRemove_All(m, k) == [x \in {} |-> 0]

\* HashMap::remove
MapRemove(m, k) == [x \in DOMAIN m \ {k} |-> m[x]]

EmptyMap == [x \in {} |-> 0]

\* some entry of the registry has this remote_ip
ContainsIp(m, ip) == \E k \in DOMAIN m : m[k].remote_ip = ip

Started(ip) == [remote_ip |-> ip, streaming_state |-> "Started"]
Ended(ip) == [remote_ip |-> ip, streaming_state |-> "Ended"]

(* ------------------------------------------------- the adapter's channel *)
CanSend_Bounded(q) == Len(q) < 1

\* Sender::send on the channel of crossbeam_channel::unbounded(): there is
\* room whatever the queue holds
CanSend(q) == TRUE

\* ChannelStream::write: the batch is sent on the adapter's channel
Write(q, batch) == Append(q, batch)

\* the workers whose adapter is in the registry
Registered(m) == { m[k].ch : k \in DOMAIN m }

WriteAll_OnlyOne(m, ch, batch) ==
    [w \in Workers |->
        IF w \in Registered(m) /\ \A v \in Registered(m) : w <= v
        THEN Write(ch[w], batch) ELSE ch[w]]

WriteAll_Twice(m, ch, batch) ==
    [w \in Workers |->
        IF w \in Registered(m) THEN Write(Write(ch[w], batch), batch) ELSE ch[w]]

\* for (_, v) in CLIENTS.read().iter() { v.write(i16_samples) }
WriteAll(m, ch, batch) ==
    [w \in Workers |-> IF w \in Registered(m) THEN Write(ch[w], batch) ELSE ch[w]]

(* ------------------------------------------------------ run_server worker *)
\* the statements of the streaming GET branch, in program order
StepAfter_StartedBeforeInsert(l) ==
    CASE l = "read_config" -> "send_started"
      [] l = "send_started" -> "insert"
      [] l = "insert" -> "create_silence"
      [] l = "create_silence" -> "respond"
      [] l = "respond" -> "remove"
      [] l = "remove" -> "send_ended"
      [] l = "send_ended" -> "next"

StepAfter_EndedBeforeRemove(l) ==
    CASE l = "read_config" -> "insert"
      [] l = "insert" -> "send_started"
      [] l = "send_started" -> "create_silence"
      [] l = "create_silence" -> "respond"
      [] l = "respond" -> "send_ended"
      [] l = "send_ended" -> "remove"
      [] l = "remove" -> "next"

StepAfter(l) ==
    CASE l = "read_config" -> "insert"
      [] l = "insert" -> "send_started"
      [] l = "send_started" -> "create_silence"
      [] l = "create_silence" -> "respond"
      [] l = "respond" -> "remove"
      [] l = "remove" -> "send_ended"
      [] l = "send_ended" -> "next"

AfterRespond_SkipOnErr(result) ==
    IF result = "Err" THEN "next" ELSE StepAfter("respond")

\* where the worker goes when rq.respond returns: an Err is logged and the
\* teardown follows in both cases
AfterRespond(result) == StepAfter("respond")

EndedEvents_Twice(ip, other_registered) == << Ended(ip), Ended(ip) >>

EndedEvents_Dropped(ip, other_registered) == << >>

EndedEvents_Suppressing(ip, other_registered) ==
    IF other_registered THEN << >> ELSE << Ended(ip) >>

\* the events sent when the stream has ended; other_registered: some entry of
\* the registry still has this ip
EndedEvents(ip, other_registered) == << Ended(ip) >>

\* the addresses of the requests being handled. rq.remote_addr() is the
\* peer's socket address, which identifies one connection: no request arrives
\* from an address while a worker is still handling a request from it
Live == { rq[w].remote_addr : w \in { v \in Workers : pc[v] # "idle" } }

DefaultHeaders == { "Connection", "Server", "icy-name" }
StreamingHeaders == DefaultHeaders \cup { "Content-Type", "TransferMode.DLNA.ORG" }

\* ct_text
ContentType(cf) ==
    IF cf.use_wave_format THEN << "audio/vnd.wave;codec=1" >>
    ELSE << "audio/L16;rate=", SampleRate, ";channels=2" >>

\* (streamsize, chunked_threshold)
TransferPolicy(cf) ==
    IF cf.disable_chunked
    THEN [streamsize |-> UsizeMaxMinus1, chunked_threshold |-> UsizeMax]
    ELSE [streamsize |-> NoSize, chunked_threshold |-> ChunkedThreshold]

\* the configuration fields a request uses, out of CONFIG.read().clone()
Snapshot(c) ==
    [use_wave_format |-> c.use_wave_format, disable_chunked |-> c.disable_chunked]

IsStreamUrl_Any(url) == TRUE

\* the negation of rq.url() != "/stream/swyh.wav"
IsStreamUrl(url) == url = StreamUrl

\* a request for another url: 404 with the default headers, and continue
NotFound(w) ==
    /\ pc[w] = "idle"
    /\ nEvents < MaxEvents
    /\ \E a \in Addrs \ Live, u \in { x \in Urls : ~IsStreamUrl(x) }, m \in Methods :
          /\ rq' = [rq EXCEPT ![w] = [remote_addr |-> a, url |-> u, method |-> m]]
          /\ remote_ip' = [remote_ip EXCEPT ![w] = RemoteIp(a)]
    /\ nEvents' = nEvents + 1
    /\ resp' = [resp EXCEPT ![w] =
                  [status |-> 404, headers |-> DefaultHeaders, body |-> "empty"]]
    /\ pc' = [pc EXCEPT ![w] = "next"]
    /\ UNCHANGED << monitorVars, restVars >>
    /\ UNCHANGED << conf, hdrs, respResult, drained, silence, clients, chan,
                    feedback, captureVars, configVars, histVars >>

\* a request for the streaming url passes the url check
Accept(w) ==
    /\ pc[w] = "idle"
    /\ nEvents < MaxEvents
    /\ \E a \in Addrs \ Live, u \in { x \in Urls : IsStreamUrl(x) }, m \in Methods :
          /\ rq' = [rq EXCEPT ![w] = [remote_addr |-> a, url |-> u, method |-> m]]
          /\ remote_ip' = [remote_ip EXCEPT ![w] = RemoteIp(a)]
    /\ nEvents' = nEvents + 1
    /\ pc' = [pc EXCEPT ![w] = "read_config"]
    /\ UNCHANGED << monitorVars, restVars >>
    /\ UNCHANGED << conf, hdrs, resp, respResult, drained, silence, clients, chan,
                    feedback, captureVars, configVars, histVars >>

Branch_HeadAsGet(method) ==
    IF method \in {"GET", "HEAD"} THEN "get"
    ELSE IF method = "POST" THEN "post"
    ELSE "none"

\* if matches!(rq.method(), Method::Get) .. else if Method::Head .. else if
\* Method::Post; no else
Branch(method) ==
    IF method = "GET" THEN "get"
    ELSE IF method = "HEAD" THEN "head"
    ELSE IF method = "POST" THEN "post"
    ELSE "none"

\* GET: the configuration snapshot, the headers, the transfer policy, the
\* channel and the adapter for the registry
HandleGet(w) ==
    /\ pc[w] = "read_config"
    /\ Branch(rq[w].method) = "get"
    /\ ~cfgWriter
    /\ conf' = [conf EXCEPT ![w] = Snapshot(config)]
    /\ hdrs' = [hdrs EXCEPT ![w] =
                  [ct |-> ContentType(Snapshot(config)),
                   streamsize |-> TransferPolicy(Snapshot(config)).streamsize,
                   chunked_threshold |->
                       TransferPolicy(Snapshot(config)).chunked_threshold]]
    /\ chan' = [chan EXCEPT ![w] = << >>]
    /\ pc' = [pc EXCEPT ![w] = StepAfter("read_config")]
    /\ UNCHANGED << monitorVars, restVars >>
    /\ UNCHANGED << rq, remote_ip, resp, respResult, drained, silence, clients,
                    feedback, captureVars, configVars, nEvents, histVars >>

HeadResponse_DefaultHeaders(cf) ==
    [status |-> 200, headers |-> DefaultHeaders, body |-> "empty"]

\* Response::empty(200) with the cc, ct, tm, srvr and nm headers
HeadResponse(cf) ==
    [status |-> 200, headers |-> StreamingHeaders, ct |-> ContentType(cf),
     body |-> "empty"]

\* HEAD: the configuration snapshot, the streaming headers and no body
HandleHead(w) ==
    /\ pc[w] = "read_config"
    /\ Branch(rq[w].method) = "head"
    /\ ~cfgWriter
    /\ conf' = [conf EXCEPT ![w] = Snapshot(config)]
    /\ hdrs' = [hdrs EXCEPT ![w] = [ct |-> ContentType(Snapshot(config))]]
    /\ resp' = [resp EXCEPT ![w] = HeadResponse(Snapshot(config))]
    /\ pc' = [pc EXCEPT ![w] = "next"]
    /\ UNCHANGED << monitorVars, restVars >>
    /\ UNCHANGED << rq, remote_ip, respResult, drained, silence, clients, chan,
                    feedback, captureVars, configVars, nEvents, histVars >>

\* POST: the configuration snapshot, the default headers and no body
HandlePost(w) ==
    /\ pc[w] = "read_config"
    /\ Branch(rq[w].method) = "post"
    /\ ~cfgWriter
    /\ conf' = [conf EXCEPT ![w] = Snapshot(config)]
    /\ hdrs' = [hdrs EXCEPT ![w] = [ct |-> ContentType(Snapshot(config))]]
    /\ resp' = [resp EXCEPT ![w] =
                  [status |-> 200, headers |-> DefaultHeaders, body |-> "empty"]]
    /\ pc' = [pc EXCEPT ![w] = "next"]
    /\ UNCHANGED << monitorVars, restVars >>
    /\ UNCHANGED << rq, remote_ip, respResult, drained, silence, clients, chan,
                    feedback, captureVars, configVars, nEvents, histVars >>

\* any other method: no branch matches and the request is dropped unanswered
HandleOther(w) ==
    /\ pc[w] = "read_config"
    /\ Branch(rq[w].method) = "none"
    /\ ~cfgWriter
    /\ conf' = [conf EXCEPT ![w] = Snapshot(config)]
    /\ hdrs' = [hdrs EXCEPT ![w] = [ct |-> ContentType(Snapshot(config))]]
    /\ pc' = [pc EXCEPT ![w] = "next"]
    /\ UNCHANGED << monitorVars, restVars >>
    /\ UNCHANGED << rq, remote_ip, resp, respResult, drained, silence, clients,
                    chan, feedback, captureVars, configVars, nEvents, histVars >>

AdapterFormat_Current(cf, current) == current.use_wave_format

\* the use_wave_format argument of ChannelStream::new: the snapshot's flag,
\* whatever CONFIG holds by then
AdapterFormat(cf, current) == cf.use_wave_format

\* the last batch the capture callback has fanned out
Fanned == IF wrPc = "fanout" THEN nCallbacks - 1 ELSE nCallbacks

\* { let mut clients = CLIENTS.write(); clients.insert(remote_addr,
\*   channel_stream); clients.len() }
Insert(w) ==
    /\ pc[w] = "insert"
    /\ clients' = MapInsert(clients, rq[w].remote_addr,
                            [ch |-> w, remote_ip |-> remote_ip[w],
                             use_wave_format |-> AdapterFormat(conf[w], config),
                             sample_rate |-> SampleRate])
    /\ inserted' = [inserted EXCEPT ![w] = TRUE]
    /\ regAt' = [regAt EXCEPT ![w] = Fanned]
    /\ pc' = [pc EXCEPT ![w] = StepAfter("insert")]
    /\ UNCHANGED << monitorVars, restVars >>
    /\ UNCHANGED << rq, remote_ip, conf, hdrs, resp, respResult, drained, silence,
                    chan, feedback, captureVars, configVars, nEvents, written,
                    nStarted, nEnded, otherAtEnd, keyAtEnded >>

\* feedback_tx_c.send(StreamerFeedBack { remote_ip, Started })
SendStarted(w) ==
    /\ pc[w] = "send_started"
    /\ feedback' = Append(feedback, Started(remote_ip[w]))
    /\ nStarted' = [nStarted EXCEPT ![w] = @ + 1]
    /\ pc' = [pc EXCEPT ![w] = StepAfter("send_started")]
    /\ UNCHANGED << monitorVars, restVars >>
    /\ UNCHANGED << rq, remote_ip, conf, hdrs, resp, respResult, drained, silence,
                    clients, chan, captureVars, configVars, nEvents, written,
                    regAt, inserted, nEnded, otherAtEnd, keyAtEnded >>

\* the reading ChannelStream on the same channel, create_silence, and the
\* response built around it
CreateSilence(w) ==
    /\ pc[w] = "create_silence"
    /\ silence' = [silence EXCEPT ![w] = TRUE]
    /\ resp' = [resp EXCEPT ![w] =
                  [status |-> 200, headers |-> StreamingHeaders, ct |-> hdrs[w].ct,
                   body |-> "stream",
                   use_wave_format |-> AdapterFormat(conf[w], config),
                   streamsize |-> hdrs[w].streamsize,
                   chunked_threshold |-> hdrs[w].chunked_threshold]]
    /\ pc' = [pc EXCEPT ![w] = StepAfter("create_silence")]
    /\ UNCHANGED << monitorVars, restVars >>
    /\ UNCHANGED << rq, remote_ip, conf, hdrs, respResult, drained, clients, chan,
                    feedback, captureVars, configVars, nEvents, histVars >>

\* rq.respond is streaming: the HTTP writer reads the next batch of the adapter
Drain(w) ==
    /\ pc[w] = "respond"
    /\ chan[w] # << >>
    /\ drained' = [drained EXCEPT ![w] = Append(@, Head(chan[w]))]
    /\ chan' = [chan EXCEPT ![w] = Tail(@)]
    /\ UNCHANGED << monitorVars, restVars >>
    /\ UNCHANGED << pc, rq, remote_ip, conf, hdrs, resp, respResult, silence,
                    clients, feedback, captureVars, configVars, nEvents,
                    histVars >>

\* rq.respond returns: the client has gone (Ok) or a write failed (Err)
RespondEnd(w) ==
    /\ pc[w] = "respond"
    /\ \E result \in {"Ok", "Err"} :
          /\ respResult' = [respResult EXCEPT ![w] = result]
          /\ pc' = [pc EXCEPT ![w] = AfterRespond(result)]
    /\ UNCHANGED << monitorVars, restVars >>
    /\ UNCHANGED << rq, remote_ip, conf, hdrs, resp, drained, silence, clients,
                    chan, feedback, captureVars, configVars, nEvents, histVars >>

\* { let mut clients = CLIENTS.write(); clients.remove(&remote_addr);
\*   clients.len() }: the registry's ChannelStream is dropped
Remove(w) ==
    /\ pc[w] = "remove"
    /\ clients' = MapRemove(clients, rq[w].remote_addr)
    /\ pc' = [pc EXCEPT ![w] = StepAfter("remove")]
    /\ UNCHANGED << monitorVars, restVars >>
    /\ UNCHANGED << rq, remote_ip, conf, hdrs, resp, respResult, drained, silence,
                    chan, feedback, captureVars, configVars, nEvents, histVars >>

\* feedback_tx_c.send(StreamerFeedBack { remote_ip, Ended })
SendEnded(w) ==
    /\ pc[w] = "send_ended"
    /\ feedback' = feedback \o EndedEvents(remote_ip[w], ContainsIp(clients, remote_ip[w]))
    /\ nEnded' = [nEnded EXCEPT ![w] =
                    @ + Len(EndedEvents(remote_ip[w], ContainsIp(clients, remote_ip[w])))]
    /\ otherAtEnd' = [otherAtEnd EXCEPT ![w] = ContainsIp(clients, remote_ip[w])]
    /\ keyAtEnded' = [keyAtEnded EXCEPT ![w] = rq[w].remote_addr \in DOMAIN clients]
    /\ pc' = [pc EXCEPT ![w] = StepAfter("send_ended")]
    /\ UNCHANGED << monitorVars, restVars >>
    /\ UNCHANGED << rq, remote_ip, conf, hdrs, resp, respResult, drained, silence,
                    clients, chan, captureVars, configVars, nEvents, written,
                    regAt, inserted, nStarted >>

NoConf == [use_wave_format |-> FALSE, disable_chunked |-> FALSE]
NoHdrs == [ct |-> << >>]

\* the end of the loop body (after app::awake() and yield_now(), or at
\* continue): the locals of the iteration are dropped, the channel with
\* them, and the worker waits for the next request
NextRequest(w) ==
    /\ pc[w] = "next"
    /\ pc' = [pc EXCEPT ![w] = "idle"]
    /\ rq' = [rq EXCEPT ![w] = NoRq]
    /\ remote_ip' = [remote_ip EXCEPT ![w] = << >>]
    /\ conf' = [conf EXCEPT ![w] = NoConf]
    /\ hdrs' = [hdrs EXCEPT ![w] = NoHdrs]
    /\ resp' = [resp EXCEPT ![w] = NoResp]
    /\ respResult' = [respResult EXCEPT ![w] = "none"]
    /\ chan' = [chan EXCEPT ![w] = << >>]
    /\ drained' = [drained EXCEPT ![w] = << >>]
    /\ silence' = [silence EXCEPT ![w] = FALSE]
    /\ written' = [written EXCEPT ![w] = << >>]
    /\ regAt' = [regAt EXCEPT ![w] = 0]
    /\ inserted' = [inserted EXCEPT ![w] = FALSE]
    /\ nStarted' = [nStarted EXCEPT ![w] = 0]
    /\ nEnded' = [nEnded EXCEPT ![w] = 0]
    /\ otherAtEnd' = [otherAtEnd EXCEPT ![w] = FALSE]
    /\ keyAtEnded' = [keyAtEnded EXCEPT ![w] = FALSE]
    /\ UNCHANGED << monitorVars, restVars >>
    /\ UNCHANGED << clients, feedback, captureVars, configVars, nEvents >>

(* ------------------------------------------------------------ wave_reader *)
\* the callback is entered: i16_samples.clear(); i16_samples.extend(...)
WrConvert ==
    /\ wrPc = "idle"
    /\ nEvents < MaxEvents
    /\ nEvents' = nEvents + 1
    /\ nCallbacks' = nCallbacks + 1
    /\ wrBatch' = nCallbacks + 1
    /\ wrPc' = "fanout"
    /\ UNCHANGED << monitorVars, restVars >>
    /\ UNCHANGED << workerVars, clients, chan, feedback, rmsChan, configVars,
                    histVars >>

\* for (_, v) in CLIENTS.read().iter() { v.write(i16_samples) }
WrFanOut ==
    /\ wrPc = "fanout"
    /\ \A w \in Registered(clients) : CanSend(chan[w])
    /\ chan' = WriteAll(clients, chan, wrBatch)
    /\ written' = [w \in Workers |->
                     IF w \in Registered(clients) THEN Append(written[w], wrBatch)
                     ELSE written[w]]
    /\ wrPc' = "rms"
    /\ UNCHANGED << monitorVars, restVars >>
    /\ UNCHANGED << workerVars, clients, feedback, wrBatch, nCallbacks, rmsChan,
                    configVars, nEvents, regAt, inserted, nStarted, nEnded,
                    otherAtEnd, keyAtEnded >>

RmsSend_Always(q, monitor_rms, batch) == Append(q, batch)

\* if monitor_rms { rms_sender.send(i16_samples.to_vec()) }
RmsSend(q, monitor_rms, batch) == IF monitor_rms THEN Append(q, batch) ELSE q

\* if CONFIG.read().monitor_rms { rms_sender.send(i16_samples.to_vec()) }
WrRms ==
    /\ wrPc = "rms"
    /\ ~cfgWriter
    /\ rmsChan' = RmsSend(rmsChan, config.monitor_rms, wrBatch)
    /\ wrPc' = "idle"
    /\ UNCHANGED << monitorVars, restVars >>
    /\ UNCHANGED << workerVars, clients, chan, feedback, wrBatch, nCallbacks,
                    configVars, nEvents, histVars >>

(* ------------------------------------------ the control layer's callbacks *)
ConfigFlags == { "use_wave_format", "disable_chunked", "monitor_rms" }

\* a checkbox is clicked: let mut conf = CONFIG.write(); conf.<flag> = b.is_set()
CtlSet ==
    /\ ~cfgWriter
    /\ nEvents < MaxEvents
    /\ \E f \in ConfigFlags : config' = [config EXCEPT ![f] = ~config[f]]
    /\ cfgWriter' = TRUE
    /\ nEvents' = nEvents + 1
    /\ UNCHANGED << monitorVars, restVars >>
    /\ UNCHANGED << workerVars, clients, chan, feedback, captureVars, histVars >>

\* conf.update_config() has written the file; the callback returns and the
\* lock is released
CtlPersisted ==
    /\ cfgWriter
    /\ cfgWriter' = FALSE
    /\ UNCHANGED << monitorVars, restVars >>
    /\ UNCHANGED << workerVars, clients, chan, feedback, captureVars, config,
                    nEvents, histVars >>

(* -------------------------------------------------------- run_rms_monitor *)
\* the output devices' formats, scaled down so that a tenth of a second is a
\* few samples: sample_rate * channels / 10 is 0, 1, 2 or 3
RmsRates == { 5, 10, 15 }
RmsChannels == { 1, 2 }

\* the i16 sample values on the RMS channel
RmsAmps == { 3, -4 }

RECURSIVE SeqsUpTo(_, _)
\* the sequences over S of length n or less
SeqsUpTo(S, n) ==
    IF n = 0 THEN { << >> }
    ELSE SeqsUpTo(S, n - 1) \cup
         { Append(q, x) : q \in { r \in SeqsUpTo(S, n - 1) : Len(r) = n - 1 }, x \in S }

\* the batches a capture callback can send
RmsBatches == SeqsUpTo(RmsAmps, MaxBatchLen)

SamplesPerUpdate_NoDivision(w) == w.sample_rate * w.channels

\* ((wd.sample_rate.0 * wd.channels as u32) / 10) as i64
SamplesPerUpdate(w) == (w.sample_rate * w.channels) \div 10

\* *sample as i64 * *sample as i64
Square(sample) == sample * sample

\* n & 1 == 0: the sample is added to sum_l, otherwise to sum_r
IsLeft(n) == n % 2 = 0

WindowFull_Greater(count, window) == count > window

\* nsamples >= samples_per_update
WindowFull(count, window) == count >= window

\* (sum / nsamples) as f64, .sqrt(): the square root, kept as its radicand
Sqrt(x) == << "sqrt", x >>
Radicand(sum, count) == sum \div count

\* the value of a level widget the monitor has not set yet
NoLevel == << >>

RecvResult_TryRecv(q, open) == IF q # << >> THEN "Ok" ELSE "Err"

\* Receiver::recv: the next message; with the channel empty it blocks while
\* a Sender is alive and fails once all of them are dropped
RecvResult(q, open) ==
    IF q # << >> THEN "Ok" ELSE IF open THEN "block" ELSE "Err"

\* a capture callback with monitor_rms set sends its batch
RmsSenderSend ==
    /\ rmsOpen
    /\ nCallbacks < MaxRmsBatches
    /\ nCallbacks' = nCallbacks + 1
    /\ \E batch \in RmsBatches : rmsChan' = Append(rmsChan, batch)
    /\ UNCHANGED restVars
    /\ UNCHANGED << serverVars, wd, rmsOpen, rmsPc, rmsSamples, rmsN,
                    samples_per_update, nsamples, sum_l, sum_r, rms_l, rms_r,
                    nConsumed, nPublished, winAmps, pubAmps, pubLen >>

\* the stream and its callback are dropped, the last Sender with them
RmsSendersDropped ==
    /\ rmsOpen
    /\ rmsOpen' = FALSE
    /\ UNCHANGED restVars
    /\ UNCHANGED << serverVars, nCallbacks, rmsChan, wd, rmsPc, rmsSamples, rmsN,
                    samples_per_update, nsamples, sum_l, sum_r, rms_l, rms_r,
                    nConsumed, nPublished, winAmps, pubAmps, pubLen >>

\* while let Ok(samples) = rms_receiver.recv(): a batch is received
RmsRecv ==
    /\ rmsPc = "recv"
    /\ RecvResult(rmsChan, rmsOpen) = "Ok"
    /\ rmsChan' = Tail(rmsChan)
    /\ IF Head(rmsChan) = << >>
       THEN UNCHANGED << rmsPc, rmsSamples >>
       ELSE rmsPc' = "sample" /\ rmsSamples' = Head(rmsChan)
    /\ UNCHANGED restVars
    /\ UNCHANGED << serverVars, nCallbacks, wd, rmsOpen, rmsN,
                    samples_per_update, nsamples, sum_l, sum_r, rms_l, rms_r,
                    nConsumed, nPublished, winAmps, pubAmps, pubLen >>

\* one iteration of for (n, sample) in samples.iter().enumerate()
RmsSample ==
    /\ rmsPc = "sample"
    /\ LET sample == rmsSamples[rmsN + 1]
           count == nsamples + 1
           l == IF IsLeft(rmsN) THEN sum_l + Square(sample) ELSE sum_l
           r == IF IsLeft(rmsN) THEN sum_r ELSE sum_r + Square(sample)
           full == WindowFull(count, samples_per_update)
       IN  /\ nsamples' = IF full THEN 0 ELSE count
           /\ sum_l' = IF full THEN 0 ELSE l
           /\ sum_r' = IF full THEN 0 ELSE r
           /\ rms_l' = IF full THEN Sqrt(Radicand(l, count)) ELSE rms_l
           /\ rms_r' = IF full THEN Sqrt(Radicand(r, count)) ELSE rms_r
           /\ nPublished' = IF full THEN nPublished + 1 ELSE nPublished
           /\ winAmps' = IF full THEN {} ELSE winAmps \cup {sample}
           /\ pubAmps' = IF full THEN winAmps \cup {sample} ELSE pubAmps
           /\ pubLen' = IF full THEN count ELSE pubLen
    /\ nConsumed' = nConsumed + 1
    /\ IF rmsN + 1 = Len(rmsSamples)
       THEN rmsPc' = "recv" /\ rmsSamples' = << >> /\ rmsN' = 0
       ELSE rmsN' = rmsN + 1 /\ UNCHANGED << rmsPc, rmsSamples >>
    /\ UNCHANGED restVars
    /\ UNCHANGED << serverVars, nCallbacks, rmsChan, wd, rmsOpen,
                    samples_per_update >>

\* recv fails: the loop ends and run_rms_monitor returns
RmsReturn ==
    /\ rmsPc = "recv"
    /\ RecvResult(rmsChan, rmsOpen) = "Err"
    /\ rmsPc' = "done"
    /\ UNCHANGED restVars
    /\ UNCHANGED << serverVars, nCallbacks, rmsChan, wd, rmsOpen, rmsSamples,
                    rmsN, samples_per_update, nsamples, sum_l, sum_r, rms_l,
                    rms_r, nConsumed, nPublished, winAmps, pubAmps, pubLen >>

\* the monitor thread is spawned with the device's WavData and its locals
\* at zero; the Sender is in the capture callback
InitMonitor(rate, channels) ==
    /\ wd = [sample_rate |-> rate, channels |-> channels]
    /\ rmsOpen = TRUE
    /\ rmsPc = "recv"
    /\ rmsSamples = << >>
    /\ rmsN = 0
    /\ samples_per_update = SamplesPerUpdate([sample_rate |-> rate, channels |-> channels])
    /\ nsamples = 0
    /\ sum_l = 0
    /\ sum_r = 0
    /\ rms_l = NoLevel
    /\ rms_r = NoLevel
    /\ nConsumed = 0
    /\ nPublished = 0
    /\ winAmps = {}
    /\ pubAmps = {}
    /\ pubLen = 0

\* no request is being handled and the registry is empty (CLIENTS is created
\* empty); CONFIG starts with its flags clear, the other configurations are
\* reached by clicks
InitServer ==
    /\ pc = [w \in Workers |-> "idle"]
    /\ rq = [w \in Workers |-> NoRq]
    /\ remote_ip = [w \in Workers |-> << >>]
    /\ conf = [w \in Workers |-> NoConf]
    /\ hdrs = [w \in Workers |-> NoHdrs]
    /\ resp = [w \in Workers |-> NoResp]
    /\ respResult = [w \in Workers |-> "none"]
    /\ clients = EmptyMap
    /\ chan = [w \in Workers |-> << >>]
    /\ drained = [w \in Workers |-> << >>]
    /\ silence = [w \in Workers |-> FALSE]
    /\ feedback = << >>
    /\ config = [use_wave_format |-> FALSE, disable_chunked |-> FALSE,
                 monitor_rms |-> FALSE]
    /\ cfgWriter = FALSE
    /\ wrPc = "idle"
    /\ wrBatch = 0
    /\ nCallbacks = 0
    /\ rmsChan = << >>
    /\ nEvents = 0
    /\ written = [w \in Workers |-> << >>]
    /\ regAt = [w \in Workers |-> 0]
    /\ inserted = [w \in Workers |-> FALSE]
    /\ nStarted = [w \in Workers |-> 0]
    /\ nEnded = [w \in Workers |-> 0]
    /\ otherAtEnd = [w \in Workers |-> FALSE]
    /\ keyAtEnded = [w \in Workers |-> FALSE]

(* ------------------------------------------------------- main: startup *)
SampleFormats == { "F32", "I16", "U16" }
ThreadNames == { "ssdp_updater", "rms_monitor", "swyh_rs_webserver" }

\* the messages of capture_output_audio and of main's None arm
CapturingFrom == << "Capturing audio from" >>
DefaultAudio == << "Default audio" >>
ErrorCapturing(format) == << "Error capturing", format, "audio stream" >>
CouldNotCapture == << "*E*E*> Could not capture audio" >>

AfterMatch_ExitOnNone(s) == IF s = "None" THEN "exit" ELSE "spawn_ssdp"

\* where main goes after match capture_output_audio(..): both arms fall
\* through to the rest of main
AfterMatch(s) == "spawn_ssdp"

\* capture_output_audio: the two log lines, then build_input_stream for the
\* device's sample format; on Err the error is logged, None is returned and
\* the closure that owned rms_sender is dropped
CaptureOutputAudio ==
    /\ mainPc = "capture"
    /\ UNCHANGED afterStartupVars
    /\ \E built \in { "Ok", "Err" } :
          IF built = "Ok"
          THEN /\ stream' = "Some"
               /\ logged' = logged \o << CapturingFrom, DefaultAudio >>
               /\ UNCHANGED rmsOpen
          ELSE /\ stream' = "None"
               /\ logged' = logged \o << CapturingFrom, DefaultAudio,
                                         ErrorCapturing(sample_format) >>
               /\ rmsOpen' = FALSE
    /\ mainPc' = "match"
    /\ UNCHANGED << serverVars, nCallbacks, rmsChan, wd, rmsPc, rmsSamples, rmsN,
                    samples_per_update, nsamples, sum_l, sum_r, rms_l, rms_r,
                    nConsumed, nPublished, winAmps, pubAmps, pubLen,
                    sample_format, threads >>

\* match .. { Some(s) => { stream = s; stream.play() } None => { log(..) } }
MatchStream ==
    /\ mainPc = "match"
    /\ UNCHANGED afterStartupVars
    /\ logged' = IF stream = "None" THEN Append(logged, CouldNotCapture) ELSE logged
    /\ mainPc' = AfterMatch(stream)
    /\ UNCHANGED << serverVars, nCallbacks, rmsChan, monitorVars, sample_format,
                    stream, threads >>

\* thread::Builder::new().name(..).spawn(..) for the three threads, in order
Spawn(at, name, then) ==
    /\ mainPc = at
    /\ UNCHANGED afterStartupVars
    /\ threads' = threads \cup {name}
    /\ mainPc' = then
    /\ UNCHANGED << serverVars, nCallbacks, rmsChan, monitorVars, sample_format,
                    stream, logged >>

SpawnSsdpUpdater == Spawn("spawn_ssdp", "ssdp_updater", "spawn_rms")
SpawnRmsMonitor == Spawn("spawn_rms", "rms_monitor", "spawn_server")
SpawnServer == Spawn("spawn_server", "swyh_rs_webserver", "running")

\* the monitor thread, once spawned, finds its channel closed
MonitorReturns == "rms_monitor" \in threads /\ RmsReturn

(* ------------------------------------------------------ run_ssdp_updater *)
\* the renderers discover can report: two addresses, each seen under two
\* descriptions
RendererAddrs == { "192.168.1.10", "192.168.1.11" }
RendererNames == { "dev1", "dev2" }
Renderers == [remote_addr : RendererAddrs, dev_name : RendererNames]

\* the values of discover(&rmap, &log): None, or Some of a list
NoneFound == [some |-> FALSE]
SomeFound(list) == [some |-> TRUE, list |-> list]
DiscoverResults ==
    {NoneFound} \cup { SomeFound(list) : list \in SeqsUpTo(Renderers, MaxFound) }

\* Option::unwrap_or_default
UnwrapOrDefault(result) == IF result.some THEN result.list ELSE << >>

AfterDiscover_Unwrap(result) == IF result.some THEN "iterate" ELSE "stopped"

\* where the updater goes when discover has returned: into the for loop,
\* whatever the result
AfterDiscover(result) == "iterate"

IsNew_Always(m, r) == TRUE

\* !rmap.contains_key(&r.remote_addr)
IsNew(m, r) == r.remote_addr \notin DOMAIN m

\* let renderers = discover(&rmap, &log).unwrap_or_default()
SsdpDiscover ==
    /\ ssdpPc = "discover"
    /\ nCycles < MaxCycles
    /\ \E result \in DiscoverResults :
          /\ renderers' = UnwrapOrDefault(result)
          /\ failed' = ~result.some
          /\ ssdpPc' = AfterDiscover(result)
    /\ nCycles' = nCycles + 1
    /\ rmapAt' = rmap
    /\ sentAt' = Len(ssdpChan)
    /\ UNCHANGED << serverVars, nCallbacks, rmsChan, monitorVars, startupVars,
                    afterSsdpVars, rmap, ssdpChan, nSkipped >>

\* one iteration of for r in renderers.iter(): a renderer whose remote_addr
\* is not in rmap is sent and inserted
SsdpItem ==
    /\ ssdpPc = "iterate"
    /\ renderers # << >>
    /\ IF IsNew(rmap, Head(renderers))
       THEN /\ ssdpChan' = Append(ssdpChan, Head(renderers))
            /\ rmap' = MapInsert(rmap, Head(renderers).remote_addr, Head(renderers))
            /\ UNCHANGED nSkipped
       ELSE /\ nSkipped' = nSkipped + 1
            /\ UNCHANGED << ssdpChan, rmap >>
    /\ renderers' = Tail(renderers)
    /\ UNCHANGED << serverVars, nCallbacks, rmsChan, monitorVars, startupVars,
                    afterSsdpVars, ssdpPc, nCycles, failed, rmapAt, sentAt >>

\* the for loop is over: std::thread::sleep(..)
SsdpSleep ==
    /\ ssdpPc = "iterate"
    /\ renderers = << >>
    /\ ssdpPc' = "sleep"
    /\ UNCHANGED << serverVars, nCallbacks, rmsChan, monitorVars, startupVars,
                    afterSsdpVars, rmap, renderers, ssdpChan, nCycles, failed,
                    rmapAt, sentAt, nSkipped >>

\* the interval has passed: the next turn of the loop
SsdpWake ==
    /\ ssdpPc = "sleep"
    /\ ssdpPc' = "discover"
    /\ UNCHANGED << serverVars, nCallbacks, rmsChan, monitorVars, startupVars,
                    afterSsdpVars, rmap, renderers, ssdpChan, nCycles, failed,
                    rmapAt, sentAt, nSkipped >>

\* the updater thread as spawned: an empty rmap, nothing sent
InitSsdp ==
    /\ ssdpPc = "discover"
    /\ rmap = EmptyMap
    /\ renderers = << >>
    /\ ssdpChan = << >>
    /\ nCycles = 0
    /\ failed = FALSE
    /\ rmapAt = EmptyMap
    /\ sentAt = 0
    /\ nSkipped = 0

(* ------------------------------------ the registry lock, by statement *)
LkProgram_SendUnderLock ==
    << "acquire_write", "map_insert_len", "log", "send_feedback", "release_write",
       "yield", "create_silence", "socket_io", "log",
       "acquire_write", "map_remove_len", "release_write", "log",
       "send_feedback", "yield" >>

\* the statements of the GET branch from the insert on, by what they do to
\* the registry lock and to the world: the two blocks that take
\* CLIENTS.write() end before the statement that follows them; log is the
\* debug! line or log(), which takes LOGCHANNEL.read(); socket_io is
\* rq.respond
LkProgram ==
    << "acquire_write", "map_insert_len", "release_write", "log", "send_feedback",
       "yield", "create_silence", "socket_io", "log",
       "acquire_write", "map_remove_len", "release_write", "log",
       "send_feedback", "yield" >>

\* the statements of wave_reader: the guard of CLIENTS.read() lives for the
\* for statement; CONFIG.read() comes after it
RdProgram ==
    << "convert", "acquire_read", "iterate", "release_read", "acquire_other",
       "rms_send" >>

\* the statement after statement i; the log after rq.respond is skipped
\* when respond returned Ok
LkSucc(i) ==
    IF i = Len(LkProgram) THEN {0}
    ELSE IF LkProgram[i] = "socket_io" THEN {i + 1, i + 2}
    ELSE {i + 1}

\* what a thread adds to the record of operations done under a lock
Held(ops, holding, op) == IF holding THEN ops \cup {op} ELSE ops

\* a GET on the streaming path reaches the insert
LkBegin(w) ==
    /\ lkPc[w] = 0
    /\ lkPc' = [lkPc EXCEPT ![w] = 1]
    /\ UNCHANGED << serverVars, nCallbacks, rmsChan, monitorVars, startupVars,
                    ssdpVars, loopVars, eqVars, regWriter, regReaders, rdPc,
                    heldOps >>

\* worker w executes its statement; CLIENTS.write() waits for the lock to be
\* free of readers and writers
LkStep(w) ==
    /\ lkPc[w] > 0
    /\ LET op == LkProgram[lkPc[w]] IN
          /\ op = "acquire_write" => (regWriter = 0 /\ regReaders = {})
          /\ regWriter' = IF op = "acquire_write" THEN w
                          ELSE IF op = "release_write" /\ regWriter = w THEN 0
                          ELSE regWriter
          /\ heldOps' = IF op \in {"acquire_write", "release_write"} THEN heldOps
                        ELSE [heldOps EXCEPT
                                !.write = Held(@, regWriter = w, op)]
    /\ \E next \in LkSucc(lkPc[w]) : lkPc' = [lkPc EXCEPT ![w] = next]
    /\ UNCHANGED << serverVars, nCallbacks, rmsChan, monitorVars, startupVars,
                    ssdpVars, loopVars, eqVars, regReaders, rdPc >>

\* the capture callback is entered
RdBegin ==
    /\ rdPc = 0
    /\ rdPc' = 1
    /\ UNCHANGED << serverVars, nCallbacks, rmsChan, monitorVars, startupVars,
                    ssdpVars, loopVars, eqVars, lkPc, regWriter, regReaders,
                    heldOps >>

\* the capture callback executes its statement; CLIENTS.read() waits for
\* the lock to be free of a writer
RdStep ==
    /\ rdPc > 0
    /\ LET op == RdProgram[rdPc] IN
          /\ op = "acquire_read" => regWriter = 0
          /\ regReaders' = IF op = "acquire_read" THEN regReaders \cup {"wave_reader"}
                           ELSE IF op = "release_read" THEN regReaders \ {"wave_reader"}
                           ELSE regReaders
          /\ heldOps' = IF op \in {"acquire_read", "release_read"} THEN heldOps
                        ELSE [heldOps EXCEPT
                                !.read = Held(@, "wave_reader" \in regReaders, op)]
    /\ rdPc' = IF rdPc = Len(RdProgram) THEN 0 ELSE rdPc + 1
    /\ UNCHANGED << serverVars, nCallbacks, rmsChan, monitorVars, startupVars,
                    ssdpVars, loopVars, eqVars, lkPc, regWriter >>

(* ------------------------------------- main's event loop: the feedback *)
\* the renderer that has a button, and the one that has none
ButtonIp == RemoteIp(CHOOSE a \in Addrs : \E b \in Addrs : a # b /\ RemoteIp(a) = RemoteIp(b))

NoFb == [ev |-> [remote_ip |-> << >>, streaming_state |-> "none"],
         regIps |-> {}, before |-> EmptyMap, plays |-> 0]

ButtonAfter_IgnoreStill(state, still, resume, set) ==
    IF state = "Started" THEN TRUE
    ELSE IF ~(resume /\ set) /\ set THEN FALSE
    ELSE set

\* the button after an event for its ip: Started sets it; Ended, when no
\* entry of the registry has the ip, clears a set button unless auto_resume
\* is set
ButtonAfter(state, still, resume, set) ==
    IF state = "Started" THEN TRUE
    ELSE IF ~still /\ ~(resume /\ set) /\ set THEN FALSE
    ELSE set

\* r.play(..) is called: Ended, no entry with the ip, auto_resume and the
\* button set (the renderer of a button is in renderers)
PlayAfter(state, still, resume, set) ==
    state = "Ended" /\ ~still /\ resume /\ set

\* one turn of while let Ok(streamer_feedback) = feedback_rx.try_recv()
LoopFeedback ==
    /\ feedback # << >>
    /\ feedback' = Tail(feedback)
    /\ LET fb == Head(feedback)
           ip == fb.remote_ip
           still == ContainsIp(clients, ip)
       IN  /\ IF ip \in DOMAIN buttons
              THEN /\ buttons' = [buttons EXCEPT ![ip] =
                                    ButtonAfter(fb.streaming_state, still,
                                                auto_resume, buttons[ip])]
                   /\ nPlays' = IF PlayAfter(fb.streaming_state, still,
                                             auto_resume, buttons[ip])
                                THEN nPlays + 1 ELSE nPlays
              ELSE UNCHANGED << buttons, nPlays >>
           /\ lastFb' = [ev |-> fb,
                         regIps |-> { clients[k].remote_ip : k \in DOMAIN clients },
                         before |-> buttons, plays |-> nPlays]
    /\ UNCHANGED << workerVars, histVars, configVars, clients, chan, wrPc, wrBatch,
                    nEvents, nCallbacks, rmsChan, monitorVars, startupVars,
                    ssdpVars, lockVars, eqVars, auto_resume >>

\* the renderer that has the button asks for the stream, from one of its
\* ports
AcceptGet(w) ==
    Accept(w) /\ rq'[w].method = "GET" /\ RemoteIp(rq'[w].remote_addr) = ButtonIp

\* the steps of a worker serving renderers when no audio is captured
LoopWorker(w) ==
    \/ AcceptGet(w) \/ HandleGet(w)
    \/ Insert(w) \/ SendStarted(w) \/ CreateSilence(w) \/ RespondEnd(w)
    \/ Remove(w) \/ SendEnded(w) \/ NextRequest(w)

\* main has spawned its threads and the capture stream is playing
StartupDone ==
    /\ mainPc = "running"
    /\ sample_format = "F32"
    /\ stream = "Some"
    /\ logged = << >>
    /\ threads = ThreadNames

\* no renderer has been discovered: there is no button
InitLoop ==
    /\ buttons = EmptyMap
    /\ auto_resume = FALSE
    /\ nPlays = 0
    /\ lastFb = NoFb

\* no thread is at a statement that takes the registry lock
InitLock ==
    /\ lkPc = [w \in Workers |-> 0]
    /\ regWriter = 0
    /\ regReaders = {}
    /\ rdPc = 0
    /\ heldOps = [write |-> {}, read |-> {}]

(* ------------------------------------------------- StreamingState::eq *)
\* enum StreamingState
StreamingStates == { "Started", "Ended" }

\* the frames of eq the thread's stack has room for
MaxStackDepth == 30

\* what the body of eq does with its two arguments: `self == other` on two
\* &StreamingState is PartialEq::eq(*self, *other), the same function again
EqBody(self, other) == [call |-> TRUE, self |-> self, other |-> other]

\* a caller evaluates a == b on two StreamingState values
EqCall ==
    /\ eqPc = "idle"
    /\ eqPc' = "call"
    /\ eqDepth' = 1
    /\ UNCHANGED << eqSelf, eqOther, eqResult >>
    /\ UNCHANGED << serverVars, nCallbacks, rmsChan, monitorVars, startupVars,
                    ssdpVars, loopVars, lockVars >>

\* the body of eq runs in the innermost frame: it returns a value, or calls
\* eq again, in a new frame or (the call being in tail position) in its own
EqStep ==
    /\ eqPc = "call"
    /\ eqDepth < MaxStackDepth
    /\ LET b == EqBody(eqSelf, eqOther)
       IN  IF b.call
           THEN /\ eqSelf' = b.self
                /\ eqOther' = b.other
                /\ eqDepth' \in { eqDepth, eqDepth + 1 }
                /\ UNCHANGED << eqPc, eqResult >>
           ELSE /\ eqPc' = "returned"
                /\ eqResult' = b.result
                /\ eqDepth' = 0
                /\ UNCHANGED << eqSelf, eqOther >>
    /\ UNCHANGED << serverVars, nCallbacks, rmsChan, monitorVars, startupVars,
                    ssdpVars, loopVars, lockVars >>

\* the next frame does not fit: the guard page is hit and the process aborts
EqOverflow ==
    /\ eqPc = "call"
    /\ eqDepth = MaxStackDepth
    /\ EqBody(eqSelf, eqOther).call
    /\ eqPc' = "overflow"
    /\ UNCHANGED << eqSelf, eqOther, eqDepth, eqResult >>
    /\ UNCHANGED << serverVars, nCallbacks, rmsChan, monitorVars, startupVars,
                    ssdpVars, loopVars, lockVars >>

\* no comparison is being made
InitEq ==
    /\ eqPc = "idle"
    /\ eqSelf = "Started"
    /\ eqOther = "Started"
    /\ eqDepth = 0
    /\ eqResult = FALSE

InitRest == StartupDone /\ InitSsdp /\ InitLoop /\ InitLock /\ InitEq

Init == InitServer /\ InitMonitor(SampleRate, 2) /\ InitRest

\* the monitor on its own, for each device format
InitRms == /\ InitServer
           /\ \E rate \in RmsRates, channels \in RmsChannels :
                 InitMonitor(rate, channels)
           /\ InitRest

\* main before capture_output_audio, for each device format
InitStartup ==
    /\ InitServer
    /\ \E rate \in RmsRates, channels \in RmsChannels : InitMonitor(rate, channels)
    /\ mainPc = "capture"
    /\ sample_format \in SampleFormats
    /\ stream = "unset"
    /\ logged = << >>
    /\ threads = {}
    /\ InitSsdp /\ InitLoop /\ InitLock /\ InitEq

Worker(w) ==
    \/ NotFound(w) \/ Accept(w)
    \/ HandleGet(w) \/ HandleHead(w) \/ HandlePost(w) \/ HandleOther(w)
    \/ Insert(w) \/ SendStarted(w) \/ CreateSilence(w)
    \/ Drain(w) \/ RespondEnd(w)
    \/ Remove(w) \/ SendEnded(w) \/ NextRequest(w)

WaveReader == WrConvert \/ WrFanOut \/ WrRms

Control == CtlSet \/ CtlPersisted

Next == (\E w \in Workers : Worker(w)) \/ WaveReader \/ Control

Spec == Init /\ [][Next]_vars

RmsSender == RmsSenderSend \/ RmsSendersDropped

RmsMonitor == RmsRecv \/ RmsSample \/ RmsReturn

NextRms == RmsSender \/ RmsMonitor

SpecRms == InitRms /\ [][NextRms]_vars

\* the monitor is a thread of its own: it takes its next step whenever it
\* has one
SpecRmsFair == SpecRms /\ WF_vars(RmsMonitor)

SsdpUpdater == SsdpDiscover \/ SsdpItem \/ SsdpSleep \/ SsdpWake

SpecSsdp == Init /\ [][SsdpUpdater]_vars

NextLock == (\E w \in Workers : LkBegin(w) \/ LkStep(w)) \/ RdBegin \/ RdStep

SpecLock == Init /\ [][NextLock]_vars

\* one renderer has been discovered: its button is set or not, and so is
\* the auto-resume checkbox
InitLoopButtons ==
    /\ InitServer /\ InitMonitor(SampleRate, 2)
    /\ StartupDone /\ InitSsdp /\ InitLock /\ InitEq
    /\ buttons \in [{ButtonIp} -> BOOLEAN]
    /\ auto_resume \in BOOLEAN
    /\ nPlays = 0
    /\ lastFb = NoFb

NextLoop == (\E w \in Workers : LoopWorker(w)) \/ LoopFeedback

SpecLoop == InitLoopButtons /\ [][NextLoop]_vars

\* a comparison of each pair of variants, not yet begun
InitEqArgs ==
    /\ InitServer
    /\ InitMonitor(SampleRate, 2)
    /\ StartupDone /\ InitSsdp /\ InitLoop /\ InitLock
    /\ eqPc = "idle"
    /\ eqSelf \in StreamingStates
    /\ eqOther \in StreamingStates
    /\ eqDepth = 0
    /\ eqResult = FALSE

NextEq == EqCall \/ EqStep \/ EqOverflow

SpecEq == InitEqArgs /\ [][NextEq]_vars

Main == \/ CaptureOutputAudio
        \/ MatchStream
        \/ SpawnSsdpUpdater
        \/ SpawnRmsMonitor
        \/ SpawnServer

NextStartup == Main \/ MonitorReturns

SpecStartup == InitStartup /\ [][NextStartup]_vars

(* ------------------------------------------------------------ properties *)
Range(q) == { q[i] : i \in 1..Len(q) }

\* worker w is handling a streaming GET
Streaming(w) == rq[w].url = StreamUrl /\ rq[w].method = "GET"

\* the statements between a worker's insert and its remove
BetweenInsertAndRemove == { "send_started", "create_silence", "respond", "remove" }

\* the batches that have been put in w's adapter, read or still queued
Enqueued(w) == drained[w] \o chan[w]

\* the batches b with from < b <= to, in order
Batches(from, to) == [i \in 1..(to - from) |-> from + i]

\* C1: the entry a streaming GET inserted is gone once the response has
\* finished and the worker has passed its remove, whether rq.respond returned
\* Ok or Err; and the registry is empty whenever no worker is between its
\* insert and its remove.
C1_NoLeakedEntries ==
    /\ \A w \in Workers :
          (inserted[w] /\ pc[w] \notin BetweenInsertAndRemove)
              => rq[w].remote_addr \notin DOMAIN clients
    /\ (\A w \in Workers : pc[w] \notin BetweenInsertAndRemove) => clients = EmptyMap

C1_Witness ==
    \E w \in Workers :
        /\ pc[w] = "send_ended" /\ inserted[w] /\ respResult[w] = "Err"
        /\ clients = EmptyMap

\* C2: a streaming GET from ip X that ends when no other entry with ip X is
\* registered has put exactly one Ended event for X on the feedback channel.
C2_OneEndedWhenAlone ==
    \A w \in Workers :
        (pc[w] = "next" /\ Streaming(w) /\ ~otherAtEnd[w])
            => nEnded[w] = 1 /\ Ended(remote_ip[w]) \in Range(feedback)

C2_Witness ==
    \E w \in Workers :
        pc[w] = "next" /\ Streaming(w) /\ ~otherAtEnd[w] /\ nEnded[w] = 1

C4_InsertBeforeStarted ==
    \A w \in Workers :
        /\ nStarted[w] > 0 => inserted[w]
        /\ (pc[w] = "respond" \/ drained[w] # << >>) => inserted[w]
        /\ (nStarted[w] > 0 /\ pc[w] \in {"create_silence", "respond"})
              => /\ rq[w].remote_addr \in DOMAIN clients
                 /\ clients[rq[w].remote_addr].ch = w

C4_Witness ==
    \E w \in Workers :
        /\ pc[w] = "create_silence" /\ nStarted[w] = 1
        /\ Started(remote_ip[w]) \in Range(feedback)
        /\ rq[w].remote_addr \in DOMAIN clients

\* C5: when a connection's Ended event is sent, the registry holds no entry
\* under the connection's key: the remove has already happened.
C5_RemoveBeforeEnded ==
    \A w \in Workers :
        nEnded[w] > 0 => ~keyAtEnded[w] /\ rq[w].remote_addr \notin DOMAIN clients

C5_Witness ==
    \E w \in Workers :
        /\ nEnded[w] = 1 /\ ~keyAtEnded[w] /\ inserted[w]
        /\ Ended(remote_ip[w]) \in Range(feedback)

C7_Fifo ==
    \A w \in Workers :
        /\ Enqueued(w) = written[w]
        /\ \A i, j \in 1..Len(Enqueued(w)) : i < j => Enqueued(w)[i] < Enqueued(w)[j]

C7_Witness == \E w \in Workers : Len(drained[w]) >= 2 /\ drained[w] = written[w]

\* C8: a callback that has reached its fan-out can always carry it out,
\* whatever the adapters' queues hold, and after a fan-out every registered
\* adapter holds the batch.
C8_FanOutNeverBlocked ==
    /\ wrPc = "fanout" => ENABLED WrFanOut
    /\ \A w \in Registered(clients) :
          regAt[w] < Fanned => Enqueued(w)[Len(Enqueued(w))] = Fanned

C8_Witness ==
    \E w \in Registered(clients) :
        /\ wrPc = "rms" /\ drained[w] = << >> /\ Len(chan[w]) >= 2
        /\ chan[w][Len(chan[w])] = Fanned

C10_OnlyRegistryLockDelays == wrPc # "idle" => ENABLED WaveReader

\* C11 as claimed: the pre-roll silence of a connection is created before
\* any real audio batch is enqueued for it: as long as create_silence has not
\* run for a registered connection, its queue holds no batch.
C11_SilenceBeforeAudio ==
    \A w \in Workers : (inserted[w] /\ ~silence[w]) => chan[w] = << >>

\* C12: a request whose path is not the streaming path is answered 404 with
\* the default headers and no body whatever its method; it never reaches the
\* configuration read or the method dispatch, nothing is registered for it,
\* and the worker can go on to its next request.
C12_NotFound ==
    \A w \in Workers :
        (pc[w] # "idle" /\ rq[w].url # StreamUrl) =>
            /\ pc[w] = "next"
            /\ resp[w] = [status |-> 404, headers |-> DefaultHeaders,
                          body |-> "empty"]
            /\ hdrs[w] = NoHdrs
            /\ ~inserted[w]
            /\ ENABLED NextRequest(w)

C12_Witness ==
    \E v, w \in Workers :
        /\ rq[v].url # StreamUrl /\ rq[v].method = "GET" /\ resp[v].status = 404
        /\ rq[w].url # StreamUrl /\ rq[w].method = "POST" /\ resp[w].status = 404

\* C13: a HEAD request on the streaming path is answered 200 without a body,
\* with the Content-Type of its configuration snapshot and the
\* TransferMode.DLNA.ORG header, the same headers and Content-Type as the
\* response to a GET made under an equal snapshot.
C13_HeadLikeGet ==
    \A w \in Workers :
        (pc[w] = "next" /\ rq[w].url = StreamUrl /\ rq[w].method = "HEAD") =>
            /\ resp[w].status = 200
            /\ resp[w].body = "empty"
            /\ { "Content-Type", "TransferMode.DLNA.ORG" } \subseteq resp[w].headers
            /\ resp[w].ct = ContentType(conf[w])
            /\ \A v \in Workers :
                  (Streaming(v) /\ resp[v].status = 200 /\ conf[v] = conf[w]) =>
                      /\ resp[v].headers = resp[w].headers
                      /\ resp[v].ct = resp[w].ct

C13_Witness ==
    \E v, w \in Workers :
        /\ pc[w] = "next" /\ rq[w].url = StreamUrl /\ rq[w].method = "HEAD"
        /\ Streaming(v) /\ resp[v].status = 200 /\ conf[v] = conf[w]
        /\ conf[w].use_wave_format

\* C14: every step that changes the registry or puts an event on the feedback
\* channel is a step of a worker handling a GET on the streaming path; the
\* handling of a POST, a HEAD or a request for another path changes neither.
C14_OnlyGetRegisters ==
    [][ (clients' # clients \/ feedback' # feedback) =>
            \E w \in Workers : Streaming(w) /\ pc'[w] # pc[w] ]_vars

C14_Witness ==
    \E v, w \in Workers :
        /\ pc[w] = "next" /\ rq[w].url = StreamUrl /\ rq[w].method = "POST"
        /\ resp[w].status = 200
        /\ Streaming(v) /\ rq[v].remote_addr \in DOMAIN clients
        /\ feedback = << Started(remote_ip[v]) >>

\* C15: while a GET on the streaming path is handled, its Content-Type
\* (audio/vnd.wave;codec=1 exactly when the snapshot's use_wave_format is
\* set), the output-format flag of its adapters (the registry's and the
\* response's) and its transfer policy are those of the one configuration
\* snapshot the worker took, whatever CONFIG has become since.
C15_OneSnapshot ==
    \A w \in Workers :
        (Streaming(w) /\ pc[w] \notin {"idle", "read_config", "next"}) =>
            /\ hdrs[w].ct = ContentType(conf[w])
            /\ (hdrs[w].ct = << "audio/vnd.wave;codec=1" >>) <=> conf[w].use_wave_format
            /\ hdrs[w].streamsize = TransferPolicy(conf[w]).streamsize
            /\ hdrs[w].chunked_threshold = TransferPolicy(conf[w]).chunked_threshold
            /\ (hdrs[w].streamsize = NoSize) <=> ~conf[w].disable_chunked
            /\ rq[w].remote_addr \in DOMAIN clients =>
                  clients[rq[w].remote_addr].use_wave_format = conf[w].use_wave_format
            /\ resp[w].status = 200 =>
                  /\ resp[w].ct = hdrs[w].ct
                  /\ resp[w].use_wave_format = conf[w].use_wave_format
                  /\ resp[w].streamsize = hdrs[w].streamsize
                  /\ resp[w].chunked_threshold = hdrs[w].chunked_threshold

C15_Witness ==
    \E w \in Workers :
        /\ Streaming(w) /\ pc[w] = "respond"
        /\ rq[w].remote_addr \in DOMAIN clients
        /\ conf[w].use_wave_format /\ ~config.use_wave_format

\* C20: the last step of a capture callback appends exactly one copy of the
\* callback's batch to the RMS channel when monitor_rms is set in CONFIG at
\* that step and leaves the RMS channel as it is when monitor_rms is clear;
\* no other step touches the RMS channel, and the fan-out step appends the
\* batch to every registered adapter's queue whatever monitor_rms is.
C20_RmsCopyIffMonitoring ==
    [][ /\ (wrPc = "rms" /\ wrPc' = "idle" /\ config.monitor_rms) =>
               rmsChan' = rmsChan \o << wrBatch >>
        /\ ~(wrPc = "rms" /\ wrPc' = "idle" /\ config.monitor_rms) =>
               rmsChan' = rmsChan
        /\ (wrPc = "fanout" /\ wrPc' = "rms") =>
               \A w \in Workers :
                   chan'[w] = IF rq[w].remote_addr \in DOMAIN clients
                              THEN chan[w] \o << wrBatch >> ELSE chan[w] ]_vars

C20_Witness ==
    /\ wrPc = "idle" /\ nCallbacks = 2 /\ rmsChan = << 2 >>
    /\ config.monitor_rms

\* C17 as claimed: when the monitor has been fed exactly one window of
\* interleaved stereo samples, all of the same value A, the level it
\* publishes is A on the left and on the right: the value under each square
\* root is A * A.
C17_LevelIsAmplitude ==
    \A A \in RmsAmps :
        ( /\ wd.channels = 2
          /\ samples_per_update > 0
          /\ samples_per_update % wd.channels = 0
          /\ nConsumed = samples_per_update
          /\ nPublished = 1
          /\ pubAmps = {A} ) =>
            /\ rms_l = Sqrt(A * A)
            /\ rms_r = Sqrt(A * A)

C19_ReturnsWhenClosed ==
    /\ [](rmsPc = "done" => (~rmsOpen /\ rmsChan = << >>))
    /\ (~rmsOpen) ~> (rmsPc = "done")

C19_Witness == rmsPc = "done" /\ nConsumed >= 2 /\ nPublished >= 1

\* C21: a worker whose rq.respond failed goes on to remove its own key, send
\* its one Ended event and reach the end of the loop body, from where it can
\* take the next request; every other worker between its insert and its
\* remove still finds its own entry in the registry.
C21_WriteFailureIsolated ==
    \A w \in Workers :
        respResult[w] = "Err" =>
            /\ pc[w] \in {"remove", "send_ended", "next"}
            /\ pc[w] \in {"send_ended", "next"} =>
                  rq[w].remote_addr \notin DOMAIN clients
            /\ pc[w] = "next" => (nEnded[w] = 1 /\ ENABLED NextRequest(w))
            /\ \A v \in Workers \ {w} :
                  (Streaming(v) /\ pc[v] \in BetweenInsertAndRemove) =>
                      /\ rq[v].remote_addr \in DOMAIN clients
                      /\ clients[rq[v].remote_addr].ch = v

C21_Witness ==
    \E v, w \in Workers :
        /\ v # w
        /\ respResult[w] = "Err" /\ pc[w] = "next"
        /\ Streaming(v) /\ pc[v] = "respond" /\ chan[v] # << >>
        /\ rq[v].remote_addr \in DOMAIN clients

\* C22: when capture_output_audio has returned None, the failure is on the
\* log channel (the error of the device's sample format and, after the
\* match, main's own message), main still has a next step until it has
\* spawned the discovery thread, the RMS monitor thread and the streaming
\* server, and the server's workers then accept requests while no capture
\* callback runs.
C22_StartupWithoutCapture ==
    stream = "None" =>
        /\ \E i \in 1..Len(logged) : logged[i] = ErrorCapturing(sample_format)
        /\ mainPc # "match" => \E i \in 1..Len(logged) : logged[i] = CouldNotCapture
        /\ mainPc # "running" => ENABLED Main
        /\ mainPc = "running" =>
              /\ threads = ThreadNames
              /\ \A w \in Workers : ENABLED Accept(w)
              /\ ~rmsOpen /\ nCallbacks = 0 /\ wrPc = "idle"

C22_Witness == stream = "None" /\ mainPc = "running" /\ rmsPc = "done"

\* C23: after a discovery that failed, the updater has an empty result to
\* iterate over: nothing has been sent and the known map is as it was when
\* the discovery returned; the updater is still in its loop, goes to sleep
\* and from its sleep to the next discovery.
C23_FailedDiscoveryIsEmpty ==
    /\ ssdpPc \in {"discover", "iterate", "sleep"}
    /\ (failed /\ ssdpPc \in {"iterate", "sleep"}) =>
          /\ renderers = << >>
          /\ rmap = rmapAt
          /\ Len(ssdpChan) = sentAt
    /\ (failed /\ ssdpPc = "iterate") => ENABLED SsdpSleep
    /\ ssdpPc = "sleep" => ENABLED SsdpWake
    /\ (ssdpPc = "discover" /\ nCycles < MaxCycles) => ENABLED SsdpDiscover

C23_Witness ==
    /\ failed /\ ssdpPc = "sleep" /\ nCycles = 2
    /\ ssdpChan # << >> /\ rmap = rmapAt

\* C25: no two renderers sent to the control layer have the same
\* remote_addr, whether they were found in different discoveries or in one;
\* every renderer sent is the one recorded in the known map under its
\* remote_addr, and once the for loop has moved on every address of the
\* known map has been sent.
C25_ForwardedOnce ==
    /\ \A i, j \in 1..Len(ssdpChan) :
          ssdpChan[i].remote_addr = ssdpChan[j].remote_addr => i = j
    /\ \A i \in 1..Len(ssdpChan) :
          /\ ssdpChan[i].remote_addr \in DOMAIN rmap
          /\ rmap[ssdpChan[i].remote_addr] = ssdpChan[i]
    /\ Cardinality(DOMAIN rmap) = Len(ssdpChan)

C25_Witness ==
    /\ Len(ssdpChan) = 2 /\ nSkipped >= 2 /\ nCycles = 2
    /\ ssdpPc = "sleep"

\* C24: a worker holds the registry write lock only at the map insert or
\* remove (with the read of the length) and at the end of that block:
\* nothing else has ever been done under the write lock, neither a feedback
\* send, a log line, socket I/O nor taking another lock; the capture
\* callback has done nothing but iterate under the read lock, which it takes
\* as a reader only; a writer and a reader never hold the lock together.
C24_ShortCriticalSections ==
    /\ heldOps.write \subseteq { "map_insert_len", "map_remove_len" }
    /\ \A w \in Workers :
          regWriter = w =>
              LkProgram[lkPc[w]] \in { "map_insert_len", "map_remove_len",
                                       "release_write" }
    /\ heldOps.read \subseteq { "iterate" }
    /\ regWriter \in Workers \cup {0}
    /\ regWriter # 0 => regReaders = {}

C24_Witness ==
    /\ heldOps = [write |-> { "map_insert_len", "map_remove_len" },
                  read |-> { "iterate" }]
    /\ regReaders = { "wave_reader" }
    /\ \E w \in Workers : lkPc[w] > 0 /\ LkProgram[lkPc[w]] = "acquire_write"

\* C26: after the loop has processed an Ended event for an ip that has a
\* button: if an entry of the registry had that ip, the button is as it was
\* and no play request was issued; if none had it and the button was set,
\* then with auto-resume the button is still set and one play request was
\* issued, and without auto-resume the button is off and none was issued.
C26_EndedWhileStillStreaming ==
    (lastFb.ev.streaming_state = "Ended" /\ lastFb.ev.remote_ip \in DOMAIN buttons) =>
        LET ip == lastFb.ev.remote_ip
            still == ip \in lastFb.regIps
            set == lastFb.before[ip]
            played == nPlays - lastFb.plays
        IN  /\ still => (buttons[ip] = set /\ played = 0)
            /\ (~still /\ set /\ auto_resume) => (buttons[ip] /\ played = 1)
            /\ (~still /\ set /\ ~auto_resume) => (~buttons[ip] /\ played = 0)

C26_Witness ==
    /\ lastFb.ev = Ended(ButtonIp)
    /\ ButtonIp \in lastFb.regIps
    /\ lastFb.before[ButtonIp] /\ buttons[ButtonIp]
    /\ ~auto_resume /\ nPlays = 0
    /\ \E w \in Workers : pc[w] = "next" /\ remote_ip[w] = ButtonIp

\* the events of one kind for one ip among the first n sent
CountSent(n, ev) == Cardinality({ i \in 1..n : feedback[i] = ev })

\* C27: among the events sent so far, and among those sent up to any
\* earlier moment, the Ended events for an ip are never more than the
\* Started events for it; a worker has sent at most one Ended for its request
\* and has sent its Started before.
C27_EndedNeverExceedsStarted ==
    /\ \A n \in 0..Len(feedback) :
          \A a \in Addrs :
              CountSent(n, Ended(RemoteIp(a))) <= CountSent(n, Started(RemoteIp(a)))
    /\ \A w \in Workers : nEnded[w] <= nStarted[w] /\ nStarted[w] <= 1

C27_Witness ==
    \E a \in Addrs :
        /\ CountSent(Len(feedback), Started(RemoteIp(a))) = 2
        /\ CountSent(Len(feedback), Ended(RemoteIp(a))) = 2
        /\ feedback[2] = Started(RemoteIp(a))

\* C28: the registry never holds more entries than there are workers in the
\* pool, and while every worker is serving a streaming GET, between its
\* insert and its remove, no worker can take or answer another request of
\* any kind.
C28_PoolBoundsRegistry ==
    /\ Cardinality(DOMAIN clients) <= NumWorkers
    /\ (\A w \in Workers : Streaming(w) /\ pc[w] \in BetweenInsertAndRemove) =>
          \A w \in Workers :
              /\ ~ENABLED Accept(w)
              /\ ~ENABLED NotFound(w)
              /\ ~ENABLED HandleGet(w)
              /\ ~ENABLED HandleHead(w)
              /\ ~ENABLED HandlePost(w)
              /\ ~ENABLED HandleOther(w)

C28_Witness ==
    /\ Cardinality(DOMAIN clients) = NumWorkers
    /\ \A w \in Workers : Streaming(w) /\ pc[w] = "respond"
    /\ nEvents < MaxEvents

\* C29: whenever the monitor has computed a level, the sample count it
\* divided by was at least 1; and when sample_rate * channels / 10 is 0 a
\* level is published and the window reset after every single sample.
C29_DivisorNeverZero ==
    /\ nPublished > 0 => pubLen >= 1
    /\ (wd.sample_rate * wd.channels) \div 10 = 0 =>
          /\ nPublished = nConsumed
          /\ nsamples = 0
          /\ nPublished > 0 => pubLen = 1

C29_Witness ==
    /\ (wd.sample_rate * wd.channels) \div 10 = 0
    /\ samples_per_update = 0
    /\ nConsumed >= 2
    /\ nPublished = nConsumed
    /\ pubLen = 1

\* C30: comparing two StreamingState values for equality terminates and
\* returns true exactly when both are the same variant: a comparison that
\* has been made and is no longer running has returned, with that result.
C30_EqTerminates ==
    eqPc \notin { "idle", "call" } =>
        /\ eqPc = "returned"
        /\ eqResult = (eqSelf = eqOther)

====
